---- MODULE Spec2Model ----
(***************************************************************************)
(* Box geometry and overlap resolution of leptonica's boxfunc1.c.          *)
(*                                                                         *)
(* A BOX is the record [x, y, w, h].  A BOXA is a heap object: an ordered  *)
(* array of boxes behind a handle, so that aliasing of two handles and the *)
(* destruction of an array are visible.  boxaCombineOverlaps and           *)
(* boxaHandleOverlaps are modelled statement group by statement group, as  *)
(* is boxaEqual; the geometry functions, boxClipToRectangle and the        *)
(* even/odd split and merge are operators computed as the code computes    *)
(* them, each applied by an action to arguments drawn from bounded sets.   *)
(***************************************************************************)
EXTENDS Integers, Sequences, FiniteSets

(* ------------------------------ bounds -------------------------------- *)
\* Largest origin coordinate of an input box on the x and on the y axis.
MaxX == 1
MaxY == 1
\* Largest width and height of an input box (0 is a placeholder box).
MaxW == 2
MaxH == 2
\* Largest number of boxes in an input boxa.
MaxLen == 3

(* ------------------------------ boxes --------------------------------- *)
Box(x, y, w, h) == [x |-> x, y |-> y, w |-> w, h |-> h]

\* The input boxes: origin in the first quadrant, non-negative extents.
BoxSet == {Box(x, y, w, h) : x \in 0..MaxX, y \in 0..MaxY, w \in 0..MaxW, h \in 0..MaxH}

\* The input arrays: every sequence of at most MaxLen input boxes.
BoxaSet == UNION {[1..n -> BoxSet] : n \in 0..MaxLen}

L_MAX(a, b) == IF a > b THEN a ELSE b
L_MIN(a, b) == IF a < b THEN a ELSE b

\* boxContains: 1 iff box2 is entirely contained within box1.
BoxContains(box1, box2) ==
    /\ box1.x <= box2.x
    /\ box1.y <= box2.y
    /\ box1.x + box1.w >= box2.x + box2.w
    /\ box1.y + box1.h >= box2.y + box2.h

\* A mutation of BoxIntersects: the test that box2 ends left of box1 is gone.
BoxIntersects_OneSided(box1, box2) ==
    LET l1 == box1.x
        t1 == box1.y
        l2 == box2.x
        t2 == box2.y
        r1 == l1 + box1.w - 1
        b1 == t1 + box1.h - 1
        b2 == t2 + box2.h - 1
    IN  ~(b2 < t1 \/ b1 < t2 \/ r1 < l2)

\* boxIntersects: on the inclusive pixel ranges [l, r] x [t, b].
BoxIntersects(box1, box2) ==
    LET l1 == box1.x
        t1 == box1.y
        l2 == box2.x
        t2 == box2.y
        r1 == l1 + box1.w - 1
        r2 == l2 + box2.w - 1
        b1 == t1 + box1.h - 1
        b2 == t2 + box2.h - 1
    IN  ~(b2 < t1 \/ b1 < t2 \/ r1 < l2 \/ r2 < l1)

\* A mutation of BoxOverlapRegion: the left edge of the region is that of
\* the bounding region.
BoxOverlapRegion_LeftMin(box1, box2) ==
    LET l1 == box1.x
        t1 == box1.y
        l2 == box2.x
        t2 == box2.y
        r1 == l1 + box1.w - 1
        r2 == l2 + box2.w - 1
        b1 == t1 + box1.h - 1
        b2 == t2 + box2.h - 1
        ld == L_MIN(l1, l2)
        td == L_MAX(t1, t2)
        rd == L_MIN(r1, r2)
        bd == L_MIN(b1, b2)
    IN  IF b2 < t1 \/ b1 < t2 \/ r1 < l2 \/ r2 < l1
        THEN << >>
        ELSE << Box(ld, td, rd - ld + 1, bd - td + 1) >>

\* boxOverlapRegion: <<box>> when the boxes intersect, << >> (NULL) otherwise.
BoxOverlapRegion(box1, box2) ==
    LET l1 == box1.x
        t1 == box1.y
        l2 == box2.x
        t2 == box2.y
        r1 == l1 + box1.w - 1
        r2 == l2 + box2.w - 1
        b1 == t1 + box1.h - 1
        b2 == t2 + box2.h - 1
        ld == L_MAX(l1, l2)
        td == L_MAX(t1, t2)
        rd == L_MIN(r1, r2)
        bd == L_MIN(b1, b2)
    IN  IF b2 < t1 \/ b1 < t2 \/ r1 < l2 \/ r2 < l1
        THEN << >>
        ELSE << Box(ld, td, rd - ld + 1, bd - td + 1) >>

\* boxBoundingRegion: the smallest box holding both.
BoxBoundingRegion(box1, box2) ==
    LET l1 == box1.x
        t1 == box1.y
        l2 == box2.x
        t2 == box2.y
        r1 == l1 + box1.w - 1
        r2 == l2 + box2.w - 1
        b1 == t1 + box1.h - 1
        b2 == t2 + box2.h - 1
        ld == L_MIN(l1, l2)
        td == L_MIN(t1, t2)
        rd == L_MAX(r1, r2)
        bd == L_MAX(b1, b2)
    IN  Box(ld, td, rd - ld + 1, bd - td + 1)

\* boxOverlapArea: w * h of the overlap region, 0 when there is none.
BoxOverlapArea(box1, box2) ==
    LET box == BoxOverlapRegion(box1, box2)
    IN  IF box = << >> THEN 0 ELSE box[1].w * box[1].h

(* ------------------------------ the heap ------------------------------ *)
\* Handles of the BOXA objects that can be live at one time.
BoxaIds == {"a1", "a2", "a3", "a4", "a5"}

\* A destroyed (or never created) array.
Freed == [live |-> FALSE, box |-> << >>]

\* boxaCreate / boxaCopy(..., L_COPY): a live array owning boxes of its own.
Live(boxes) == [live |-> TRUE, box |-> boxes]

\* The handle the allocator hands out next.
NewBoxa(h) == CHOOSE id \in BoxaIds : ~h[id].live

VARIABLES
    pc,        \* position in the running function
    heap,      \* BoxaIds -> the array behind each handle
    boxas,     \* handle of the input array
    in0,       \* the boxes of the input array when the function was called
    prev,      \* the completed calls, each [in, out]
    result,    \* handle of the returned array
    boxat1,    \* boxaCombineOverlaps: the working array of the pass
    boxat2,    \* boxaCombineOverlaps: the output array of the pass
    n1,        \* boxaCombineOverlaps: size of the working array
    niters,    \* boxaCombineOverlaps: passes started
    i,         \* loop index
    j,         \* boxaHandleOverlaps: inner loop index
    op,        \* boxaHandleOverlaps: L_COMBINE or L_REMOVE_SMALL
    range,     \* boxaHandleOverlaps: forward distance of the comparisons
    min_overlap,  \* boxaHandleOverlaps: <<numerator, denominator>>
    max_ratio,    \* boxaHandleOverlaps: <<numerator, denominator>>
    namap,     \* boxaHandleOverlaps: the index map, << >> while NULL
    boxat,     \* boxaHandleOverlaps: the working copy of the input
    args,      \* the arguments of the running geometry or utility function
    ret,       \* what that function has returned, << >> while it runs
    countarray,  \* boxaEqual: 1 at the positions of boxa2 already claimed
    na         \* boxaEqual: the index array under construction

combineVars == <<boxat1, boxat2, n1, niters>>
handleVars == <<j, op, range, min_overlap, max_ratio, namap, boxat>>
utilVars == <<args, ret, countarray, na>>
vars == <<pc, heap, boxas, in0, prev, result, i, combineVars, handleVars, utilVars>>

NoBoxa == "NULL"

(* ------------------------ boxaCombineOverlaps ------------------------- *)
\* A mutation of FirstHit: the scan of boxat2 starts at its second box.
FirstHit_SkipFirst(out, box1) ==
    IF \E jj \in 2..Len(out) : BoxIntersects(box1, out[jj])
    THEN CHOOSE jj \in 2..Len(out) :
            /\ BoxIntersects(box1, out[jj])
            /\ \A k \in 2..(jj - 1) : ~BoxIntersects(box1, out[k])
    ELSE 0

\* A mutation of FirstHit: the scan does not break at its first hit, the
\* last box of boxat2 that intersects box1 is the one replaced.
FirstHit_LastHit(out, box1) ==
    IF \E jj \in 1..Len(out) : BoxIntersects(box1, out[jj])
    THEN CHOOSE jj \in 1..Len(out) :
            /\ BoxIntersects(box1, out[jj])
            /\ \A k \in (jj + 1)..Len(out) : ~BoxIntersects(box1, out[k])
    ELSE 0

\* The inner loop over boxat2: the lowest jj whose box intersects box1, or 0.
FirstHit(out, box1) ==
    IF \E jj \in 1..Len(out) : BoxIntersects(box1, out[jj])
    THEN CHOOSE jj \in 1..Len(out) :
            /\ BoxIntersects(box1, out[jj])
            /\ \A k \in 1..(jj - 1) : ~BoxIntersects(box1, out[k])
    ELSE 0

\* A mutation of PlaceBox: the element is appended also when it was merged.
PlaceBox_KeepMerged(out, box1) ==
    LET jj == FirstHit(out, box1)
    IN  IF jj = 0
        THEN Append(out, box1)
        ELSE Append([out EXCEPT ![jj] = BoxBoundingRegion(box1, out[jj])], box1)

\* A mutation of PlaceBox: the box that is hit is replaced by box1 alone.
PlaceBox_DropHit(out, box1) ==
    LET jj == FirstHit(out, box1)
    IN  IF jj = 0
        THEN Append(out, box1)
        ELSE [out EXCEPT ![jj] = box1]

\* One iteration of the for loop after the first: box1 against boxat2.
PlaceBox(out, box1) ==
    LET jj == FirstHit(out, box1)
    IN  IF jj = 0
        THEN Append(out, box1)
        ELSE [out EXCEPT ![jj] = BoxBoundingRegion(box1, out[jj])]

\* The documented example: two overlapping squares and a third far away.
ClusterExample == << Box(0, 0, 10, 10), Box(5, 5, 10, 10), Box(20, 20, 5, 5) >>

\* The arrays boxaCombineOverlaps is called on.
CombineInputs == BoxaSet \cup {ClusterExample}

InitCombine ==
    /\ pc = "combine"
    /\ \E b \in CombineInputs :
          /\ heap = [id \in BoxaIds |-> IF id = "a1" THEN Live(b) ELSE Freed]
          /\ in0 = b
    /\ boxas = "a1"
    /\ prev = << >>
    /\ result = NoBoxa
    /\ boxat1 = NoBoxa
    /\ boxat2 = NoBoxa
    /\ n1 = 0
    /\ niters = 0
    /\ i = 0
    /\ j = 0
    /\ op = "none"
    /\ range = 0
    /\ min_overlap = <<0, 1>>
    /\ max_ratio = <<1, 1>>
    /\ namap = << >>
    /\ boxat = NoBoxa
    /\ args = << >>
    /\ ret = << >>
    /\ countarray = << >>
    /\ na = << >>

\* A mutation of CombineStart: the working array is the input itself.
CombineStart_NoCopy ==
    /\ pc = "combine"
    /\ boxat1' = boxas
    /\ n1' = Len(heap[boxas].box)
    /\ niters' = 0
    /\ pc' = "while"
    /\ UNCHANGED <<heap, boxas, in0, prev, result, boxat2, i, handleVars>>
    /\ UNCHANGED utilVars

\* boxat1 = boxaCopy(boxas, L_COPY); n1 = boxaGetCount(boxat1); niters = 0.
CombineStart ==
    /\ pc = "combine"
    /\ LET id == NewBoxa(heap)
       IN  /\ heap' = [heap EXCEPT ![id] = Live(heap[boxas].box)]
           /\ boxat1' = id
    /\ n1' = Len(heap[boxas].box)
    /\ niters' = 0
    /\ pc' = "while"
    /\ UNCHANGED <<boxas, in0, prev, result, boxat2, i, handleVars>>
    /\ UNCHANGED utilVars

\* Top of the while loop: niters++; boxat2 = boxaCreate(n1); i = 0.
CombineBeginPass ==
    /\ pc = "while"
    /\ niters' = niters + 1
    /\ LET id == NewBoxa(heap)
       IN  /\ heap' = [heap EXCEPT ![id] = Live(<< >>)]
           /\ boxat2' = id
    /\ i' = 0
    /\ pc' = "for"
    /\ UNCHANGED <<boxas, in0, prev, result, boxat1, n1, handleVars>>
    /\ UNCHANGED utilVars

\* A mutation of CombineStep: the first box is copied but never inserted.
CombineStep_SkipFirst ==
    /\ pc = "for"
    /\ i < n1
    /\ LET box1 == heap[boxat1].box[i + 1]
           out  == heap[boxat2].box
       IN  heap' = [heap EXCEPT ![boxat2].box =
                        IF i = 0 THEN out ELSE PlaceBox(out, box1)]
    /\ i' = i + 1
    /\ UNCHANGED <<pc, boxas, in0, prev, result, boxat1, boxat2, n1, niters, handleVars>>
    /\ UNCHANGED utilVars

\* One iteration of the for loop: element i of boxat1 (0-based) is copied
\* and either inserted into boxat2 or folded into the first box it hits.
CombineStep ==
    /\ pc = "for"
    /\ i < n1
    /\ LET box1 == heap[boxat1].box[i + 1]
           out  == heap[boxat2].box
       IN  heap' = [heap EXCEPT ![boxat2].box =
                        IF i = 0 THEN Append(out, box1) ELSE PlaceBox(out, box1)]
    /\ i' = i + 1
    /\ UNCHANGED <<pc, boxas, in0, prev, result, boxat1, boxat2, n1, niters, handleVars>>
    /\ UNCHANGED utilVars

\* A mutation of CombinePassEnd: the loop ends when one box is left.
CombinePassEnd_UntilOne ==
    /\ pc = "for"
    /\ i = n1
    /\ LET n2 == Len(heap[boxat2].box)
       IN  IF n2 = 1
           THEN /\ pc' = "return"
                /\ UNCHANGED <<heap, boxat1, n1>>
           ELSE /\ n1' = n2
                /\ heap' = [heap EXCEPT ![boxat1] = Freed]
                /\ boxat1' = boxat2
                /\ pc' = "while"
    /\ UNCHANGED <<boxas, in0, prev, result, boxat2, niters, i, handleVars>>
    /\ UNCHANGED utilVars

\* A mutation of CombinePassEnd: the loop stops after its first pass.
CombinePassEnd_OnePass ==
    /\ pc = "for"
    /\ i = n1
    /\ pc' = "return"
    /\ UNCHANGED <<heap, boxas, in0, prev, result, boxat1, boxat2, n1, niters, i, handleVars>>
    /\ UNCHANGED utilVars

\* End of a pass: n2 == n1 breaks; otherwise boxat2 becomes the working array.
CombinePassEnd ==
    /\ pc = "for"
    /\ i = n1
    /\ LET n2 == Len(heap[boxat2].box)
       IN  IF n2 = n1
           THEN /\ pc' = "return"
                /\ UNCHANGED <<heap, boxat1, n1>>
           ELSE /\ n1' = n2
                /\ heap' = [heap EXCEPT ![boxat1] = Freed]
                /\ boxat1' = boxat2
                /\ pc' = "while"
    /\ UNCHANGED <<boxas, in0, prev, result, boxat2, niters, i, handleVars>>
    /\ UNCHANGED utilVars

\* boxaDestroy(&boxat1); return boxat2.
CombineReturn ==
    /\ pc = "return"
    /\ heap' = [heap EXCEPT ![boxat1] = Freed]
    /\ result' = boxat2
    /\ prev' = Append(prev, [in |-> in0, out |-> heap[boxat2].box])
    /\ pc' = "done"
    /\ UNCHANGED <<boxas, in0, boxat1, boxat2, n1, niters, i, handleVars>>
    /\ UNCHANGED utilVars

\* The for loop of one pass as a fold: the first box is inserted, every
\* later one is placed against the output built so far.
RECURSIVE PassFrom(_, _, _)
PassFrom(work, k, out) ==
    IF k > Len(work)
    THEN out
    ELSE PassFrom(work, k + 1,
                  IF k = 1 THEN Append(out, work[k]) ELSE PlaceBox(out, work[k]))

OnePass(work) == PassFrom(work, 1, << >>)

\* boxaCombineOverlaps as a function of the boxes of its input: passes are
\* repeated until one leaves the size unchanged.
RECURSIVE CombineOverlaps(_)
CombineOverlaps(b) ==
    LET out == OnePass(b)
    IN  IF Len(out) = Len(b) THEN out ELSE CombineOverlaps(out)

\* The caller passes the returned array to boxaCombineOverlaps again.
CallOnResult ==
    /\ pc = "done"
    /\ Len(prev) = 1
    /\ boxas' = result
    /\ in0' = heap[result].box
    /\ pc' = "combine"
    /\ UNCHANGED <<heap, prev, result, boxat1, boxat2, n1, niters, i, handleVars>>
    /\ UNCHANGED utilVars

\* The caller adds a box of its own to the returned array.
CallerAddsBox ==
    /\ pc = "done"
    /\ heap' = [heap EXCEPT ![result].box = Append(@, Box(0, 0, 1, 1))]
    /\ pc' = "mutated"
    /\ UNCHANGED <<boxas, in0, prev, result, boxat1, boxat2, n1, niters, i, handleVars>>
    /\ UNCHANGED utilVars

\* The steps of one call of boxaCombineOverlaps.
CombineCall ==
    \/ CombineStart
    \/ CombineBeginPass
    \/ CombineStep
    \/ CombinePassEnd
    \/ CombineReturn

NextCombine ==
    \/ CombineCall
    \/ CallOnResult
    \/ CallerAddsBox

SpecCombine == InitCombine /\ [][NextCombine]_vars

\* One call, which runs on while it has a step to take: the function is
\* synchronous and single-threaded, nothing else can hold it up.
FairCombine == InitCombine /\ [][CombineCall]_vars /\ WF_vars(CombineCall)

(* ------------------------ boxaHandleOverlaps -------------------------- *)
\* Largest origin x and largest width of an input box of boxaHandleOverlaps.
MaxHX == 2
MaxHW == 3

\* The input boxes of boxaHandleOverlaps: the boxes one pixel high on the top
\* row (w = 0 is a placeholder), the empty placeholder box and a box of
\* zero height.
HandleBoxSet ==
    {Box(x, 0, w, 1) : x \in 0..MaxHX, w \in 0..MaxHW}
        \cup {Box(0, 0, 0, 0), Box(0, 0, MaxHW, 0)}

ExampleBoxa == << Box(0, 0, 10, 10), Box(2, 2, 4, 4) >>

HandleBoxaSet == UNION {[1..n -> HandleBoxSet] : n \in 0..MaxLen} \cup {ExampleBoxa}

\* Largest range argument.
MaxRange == 2

\* The values of min_overlap and max_ratio, as <<numerator, denominator>>:
\* 0, 1/2 and 1 are exact in l_float32, so that comparing a correctly
\* rounded quotient with them is comparing the exact quotient.
FractSet == {<<0, 1>>, <<1, 2>>, <<1, 1>>}

\* (l_float32)num / (l_float32)den >= f  and  <= f.
RatioGE(num, den, f) == num * f[2] >= f[1] * den
RatioLE(num, den, f) == num * f[2] <= f[1] * den

Area(box) == box.w * box.h

\* A mutation of MarkPair: of two boxes of equal area the first is marked.
MarkPair_StrictTie(map, box1, box2, ii, jj, mo, mr) ==
    LET overlap_area == BoxOverlapArea(box1, box2)
        area1 == Area(box1)
        area2 == Area(box2)
    IN  IF overlap_area > 0 /\ area2 # 0
        THEN IF area1 > area2
             THEN IF RatioGE(overlap_area, area2, mo) /\ RatioLE(area2, area1, mr)
                  THEN [map EXCEPT ![jj + 1] = ii]
                  ELSE map
             ELSE IF RatioGE(overlap_area, area1, mo) /\ RatioLE(area1, area2, mr)
                  THEN [map EXCEPT ![ii + 1] = jj]
                  ELSE map
        ELSE map

\* A mutation of MarkPair: the entry is written at the larger box.
MarkPair_Swapped(map, box1, box2, ii, jj, mo, mr) ==
    LET overlap_area == BoxOverlapArea(box1, box2)
        area1 == Area(box1)
        area2 == Area(box2)
    IN  IF overlap_area > 0 /\ area2 # 0
        THEN IF area1 >= area2
             THEN IF RatioGE(overlap_area, area2, mo) /\ RatioLE(area2, area1, mr)
                  THEN [map EXCEPT ![ii + 1] = jj]
                  ELSE map
             ELSE IF RatioGE(overlap_area, area1, mo) /\ RatioLE(area1, area2, mr)
                  THEN [map EXCEPT ![jj + 1] = ii]
                  ELSE map
        ELSE map

\* A mutation of MarkPair: of two boxes of equal area each is marked with
\* the index of the other.
MarkPair_MutualTie(map, box1, box2, ii, jj, mo, mr) ==
    LET overlap_area == BoxOverlapArea(box1, box2)
        area1 == Area(box1)
        area2 == Area(box2)
    IN  IF overlap_area > 0 /\ area2 # 0
        THEN IF area1 >= area2
             THEN IF RatioGE(overlap_area, area2, mo) /\ RatioLE(area2, area1, mr)
                  THEN IF area1 = area2
                       THEN [map EXCEPT ![jj + 1] = ii, ![ii + 1] = jj]
                       ELSE [map EXCEPT ![jj + 1] = ii]
                  ELSE map
             ELSE IF RatioGE(overlap_area, area1, mo) /\ RatioLE(area1, area2, mr)
                  THEN [map EXCEPT ![ii + 1] = jj]
                  ELSE map
        ELSE map

\* The body of the inner loop for the pair (ii, jj) of 0-based indices, box1
\* of non-zero area: the map after numaSetValue, or the map as it was.
MarkPair(map, box1, box2, ii, jj, mo, mr) ==
    LET overlap_area == BoxOverlapArea(box1, box2)
        area1 == Area(box1)
        area2 == Area(box2)
    IN  IF overlap_area > 0
        THEN IF area2 = 0
             THEN map
             ELSE IF area1 >= area2
                  THEN IF RatioGE(overlap_area, area2, mo) /\ RatioLE(area2, area1, mr)
                       THEN [map EXCEPT ![jj + 1] = ii]
                       ELSE map
                  ELSE IF RatioGE(overlap_area, area1, mo) /\ RatioLE(area1, area2, mr)
                       THEN [map EXCEPT ![ii + 1] = jj]
                       ELSE map
        ELSE map

\* A mutation of KeepUnmapped: the boxes of zero area are dropped as well.
RECURSIVE KeepUnmapped_DropInvalid(_, _, _)
KeepUnmapped_DropInvalid(boxes, map, k) ==
    IF k > Len(boxes)
    THEN << >>
    ELSE IF map[k] = -1 /\ Area(boxes[k]) # 0
         THEN << boxes[k] >> \o KeepUnmapped_DropInvalid(boxes, map, k + 1)
         ELSE KeepUnmapped_DropInvalid(boxes, map, k + 1)

\* A mutation of KeepUnmapped: the test of the map entry is inverted.
RECURSIVE KeepUnmapped_Inverted(_, _, _)
KeepUnmapped_Inverted(boxes, map, k) ==
    IF k > Len(boxes)
    THEN << >>
    ELSE IF map[k] # -1
         THEN << boxes[k] >> \o KeepUnmapped_Inverted(boxes, map, k + 1)
         ELSE KeepUnmapped_Inverted(boxes, map, k + 1)

\* The last loop: copies of the boxes of boxat whose map entry is -1, from
\* position k on, in order.
RECURSIVE KeepUnmapped(_, _, _)
KeepUnmapped(boxes, map, k) ==
    IF k > Len(boxes)
    THEN << >>
    ELSE IF map[k] = -1
         THEN << boxes[k] >> \o KeepUnmapped(boxes, map, k + 1)
         ELSE KeepUnmapped(boxes, map, k + 1)

InitHandle ==
    /\ pc = "handle"
    /\ \E b \in HandleBoxaSet :
          /\ heap = [id \in BoxaIds |-> IF id = "a1" THEN Live(b) ELSE Freed]
          /\ in0 = b
    /\ boxas = "a1"
    /\ prev = << >>
    /\ result = NoBoxa
    /\ boxat1 = NoBoxa
    /\ boxat2 = NoBoxa
    /\ n1 = 0
    /\ niters = 0
    /\ i = 0
    /\ j = 0
    /\ op \in {"L_COMBINE", "L_REMOVE_SMALL"}
    /\ range \in 0..MaxRange
    /\ min_overlap \in FractSet
    /\ max_ratio \in FractSet
    /\ namap = << >>
    /\ boxat = NoBoxa
    /\ args = << >>
    /\ ret = << >>
    /\ countarray = << >>
    /\ na = << >>

\* Entry: an empty input returns boxaCreate(1), range == 0 returns a copy of
\* the input; otherwise namap = numaMakeConstant(-1, n) and the marking starts.
HandleStart ==
    /\ pc = "handle"
    /\ LET n == Len(heap[boxas].box)
           id == NewBoxa(heap)
       IN  IF n = 0
           THEN /\ heap' = [heap EXCEPT ![id] = Live(<< >>)]
                /\ result' = id
                /\ prev' = Append(prev, [in |-> in0, out |-> << >>])
                /\ pc' = "done"
                /\ UNCHANGED <<namap, i>>
           ELSE IF range = 0
           THEN /\ heap' = [heap EXCEPT ![id] = Live(heap[boxas].box)]
                /\ result' = id
                /\ prev' = Append(prev, [in |-> in0, out |-> heap[boxas].box])
                /\ pc' = "done"
                /\ UNCHANGED <<namap, i>>
           ELSE /\ namap' = [k \in 1..n |-> -1]
                /\ i' = 0
                /\ pc' = "mark"
                /\ UNCHANGED <<heap, result, prev>>
    /\ UNCHANGED <<boxas, in0, combineVars, j, op, range, min_overlap, max_ratio, boxat>>
    /\ UNCHANGED utilVars

\* The head of the outer marking loop: a box1 of zero area is skipped, any
\* other starts the inner loop at j = i + 1; after the last box,
\* boxat = boxaCopy(boxas, L_COPY) and the resizing or the removal follows.
HandleOuter ==
    /\ pc = "mark"
    /\ LET n == Len(heap[boxas].box)
       IN  IF i < n
           THEN /\ IF Area(heap[boxas].box[i + 1]) = 0
                   THEN i' = i + 1 /\ UNCHANGED <<pc, j>>
                   ELSE j' = i + 1 /\ pc' = "pair" /\ UNCHANGED i
                /\ UNCHANGED <<heap, boxat>>
           ELSE /\ LET id == NewBoxa(heap)
                   IN  /\ heap' = [heap EXCEPT ![id] = Live(heap[boxas].box)]
                       /\ boxat' = id
                /\ i' = 0
                /\ pc' = IF op = "L_COMBINE" THEN "resize" ELSE "remove"
                /\ UNCHANGED j
    /\ UNCHANGED <<boxas, in0, prev, result, combineVars, op, range, min_overlap,
                   max_ratio, namap>>
    /\ UNCHANGED utilVars

\* One iteration of the inner loop, for j < i + 1 + range && j < n, or its
\* end and the step of the outer loop.
HandlePair ==
    /\ pc = "pair"
    /\ LET n == Len(heap[boxas].box)
       IN  IF j < i + 1 + range /\ j < n
           THEN /\ namap' = MarkPair(namap, heap[boxas].box[i + 1],
                                     heap[boxas].box[j + 1], i, j,
                                     min_overlap, max_ratio)
                /\ j' = j + 1
                /\ UNCHANGED <<pc, i>>
           ELSE /\ i' = i + 1
                /\ pc' = "mark"
                /\ UNCHANGED <<namap, j>>
    /\ UNCHANGED <<heap, boxas, in0, prev, result, combineVars, op, range,
                   min_overlap, max_ratio, boxat>>
    /\ UNCHANGED utilVars

\* op == L_COMBINE, one iteration: the box of boxat at the index mapped from
\* i is replaced by the bounding region of the two boxes of boxas.
HandleResize ==
    /\ pc = "resize"
    /\ LET n == Len(heap[boxas].box)
       IN  IF i < n
           THEN /\ LET val == namap[i + 1]
                   IN  IF val >= 0
                       THEN heap' = [heap EXCEPT ![boxat].box[val + 1] =
                                        BoxBoundingRegion(heap[boxas].box[i + 1],
                                                          heap[boxas].box[val + 1])]
                       ELSE UNCHANGED heap
                /\ i' = i + 1
                /\ UNCHANGED pc
           ELSE /\ pc' = "remove"
                /\ UNCHANGED <<heap, i>>
    /\ UNCHANGED <<boxas, in0, prev, result, combineVars, handleVars>>
    /\ UNCHANGED utilVars

\* The last loop and the return: boxad gets a copy of every box of boxat
\* whose map entry is -1; boxat is destroyed; the map is handed out.
HandleRemove ==
    /\ pc = "remove"
    /\ LET boxad == NewBoxa(heap)
           kept == KeepUnmapped(heap[boxat].box, namap, 1)
       IN  /\ heap' = [heap EXCEPT ![boxad] = Live(kept), ![boxat] = Freed]
           /\ result' = boxad
           /\ prev' = Append(prev, [in |-> in0, out |-> kept])
    /\ pc' = "done"
    /\ UNCHANGED <<boxas, in0, i, combineVars, handleVars>>
    /\ UNCHANGED utilVars

NextHandle ==
    \/ HandleStart
    \/ HandleOuter
    \/ HandlePair
    \/ HandleResize
    \/ HandleRemove
    \/ CallerAddsBox

SpecHandle == InitHandle /\ [][NextHandle]_vars

\* Either function, called once on an input of its own.
Init == InitCombine \/ InitHandle

Next ==
    \/ CombineStart
    \/ CombineBeginPass
    \/ CombineStep
    \/ CombinePassEnd
    \/ CombineReturn
    \/ HandleStart
    \/ HandleOuter
    \/ HandlePair
    \/ HandleResize
    \/ HandleRemove
    \/ CallerAddsBox

Spec == Init /\ [][Next]_vars

(* ------------------------------ helpers ------------------------------- *)
Range(s) == {s[k] : k \in 1..Len(s)}

\* The injective maps of 1..n onto itself.
Perms(n) == {p \in [1..n -> 1..n] : \A a, b \in 1..n : p[a] = p[b] => a = b}

Permuted(b, p) == [k \in 1..Len(b) |-> b[p[k]]]

NoTwoIntersect(b) ==
    \A a, c \in 1..Len(b) : a # c => ~BoxIntersects(b[a], b[c])

\* The boxes of the array the function returned.
Returned == heap[result].box

\* Consistency of the model: the stepwise function and its fold compute the
\* same array.
PureAgrees == pc = "done" => Returned = CombineOverlaps(in0)

(* ------------------------ boxaCombineOverlaps: claims ----------------- *)
\* C1: combine_overlaps is idempotent: called on an array it returned, it
\* returns an array equal to that input element for element.
C1_Idempotent ==
    (pc = "done" /\ Len(prev) = 2 /\ prev[2].in = prev[1].out)
        => prev[2].out = prev[1].out

\* C1 witness: the second call has returned, after a first call that merged
\* boxes and still returned more than one box.
C1_Witness ==
    /\ pc = "done"
    /\ Len(prev) = 2
    /\ prev[2].in = prev[1].out
    /\ Len(prev[1].out) < Len(prev[1].in)
    /\ Len(prev[1].out) >= 2

\* C2: combine_overlaps terminates: the output of a pass is never larger
\* than its working array, a pass that is followed by another one has made
\* the array strictly smaller, the passes number at most max(1, n) for an
\* input of n boxes, and every call returns.
C2_SizeAndPasses ==
    /\ pc # "combine" => niters <= L_MAX(1, Len(in0))
    /\ pc = "for" => Len(heap[boxat2].box) <= i /\ i <= n1

C2_Shrinks ==
    [][(pc = "for" /\ pc' # "for") =>
          /\ Len(heap[boxat2].box) <= n1
          /\ (pc' = "while" => n1' < n1)
          /\ (pc' = "return" => Len(heap[boxat2].box) = n1)]_vars

\* C2: the three parts together: the bounds on sizes and passes in every
\* state, the shrinking of the working array from pass to pass, and the
\* return of the call.
C2_Terminates ==
    /\ []C2_SizeAndPasses
    /\ C2_Shrinks
    /\ <>(pc = "done")

\* C2 witness: a call on three boxes has returned after three passes.
C2_Witness == pc = "done" /\ Len(in0) = 3 /\ niters = 3

\* C3: the returned array is a fixed point: no two boxes at distinct
\* positions of it intersect.
C3_FixedPoint == pc = "done" => NoTwoIntersect(Returned)

\* C3 witness: a call that merged boxes has returned two or more boxes.
C3_Witness ==
    /\ pc = "done"
    /\ Len(Returned) >= 2
    /\ Len(Returned) < Len(in0)

\* C4: when no two boxes of the input intersect, the call runs exactly one
\* pass and returns an array equal to the input element for element.
C4_NoOverlapIsCopy ==
    (pc = "done" /\ NoTwoIntersect(in0)) => (niters = 1 /\ Returned = in0)

\* C4 witness: a call on three boxes, no two of which intersect, has returned.
C4_Witness == pc = "done" /\ NoTwoIntersect(in0) /\ Len(in0) = 3

\* C6 as stated: when a call starts there are an array B and a permutation
\* B' of it whose results differ as sets of boxes.
C6_OrderDependent ==
    pc = "combine" =>
        \E b \in BoxaSet : \E p \in Perms(Len(b)) :
            Range(CombineOverlaps(Permuted(b, p))) # Range(CombineOverlaps(b))

\* C6 as amended: only the order of the returned boxes depends on the order
\* of the input: for every permutation of the input, the set of boxes
\* returned for the permuted input is the set returned for the input.
C6_SameSet ==
    (pc = "done" /\ Len(prev) = 1) =>
        \A p \in Perms(Len(in0)) :
            Range(CombineOverlaps(Permuted(in0, p))) = Range(Returned)

\* C6 witness: a call that merged boxes has returned, and a permutation of
\* its input gives the same boxes in another order.
C6_Witness ==
    /\ pc = "done"
    /\ Len(prev) = 1
    /\ Len(Returned) < Len(in0)
    /\ \E p \in Perms(Len(in0)) : CombineOverlaps(Permuted(in0, p)) # Returned

(* ------------------------ both functions: claims ---------------------- *)
\* C5: combine_overlaps and handle_overlaps leave their input unchanged: at
\* every point of the call and after it the input array is live and holds
\* the boxes it held at the call, the returned array is another, live array,
\* and a box the caller adds to the returned array does not show in the input.
C5_InputUnchanged ==
    /\ heap[boxas].live
    /\ heap[boxas].box = in0
    /\ pc \in {"done", "mutated"} =>
          /\ result # boxas
          /\ heap[result].live

\* C5 witness: handle_overlaps in L_COMBINE mode has resized a box of its
\* working copy and returned, and the caller has changed the returned array.
C5_Witness ==
    /\ pc = "mutated"
    /\ op = "L_COMBINE"
    /\ namap # << >>
    /\ \E p \in 1..Len(namap) : namap[p] >= 0
    /\ Len(prev[1].out) >= 1

(* ------------------------ boxaHandleOverlaps: claims ------------------ *)
\* The marking pass is over and has left a map.
Marked == namap # << >> /\ pc \in {"resize", "remove", "done", "mutated"}

\* The 1-based positions whose map entry is the sentinel.
Unmapped == {p \in 1..Len(namap) : namap[p] = -1}

\* The k-th smallest member of the set S of positions.
Kth(S, k) == CHOOSE p \in S : Cardinality({q \in S : q < p}) = k - 1

\* The pair condition of the resolver, for 0-based indices p and q of the
\* input: q is within the window of p, both boxes have area, they overlap,
\* the box at p is the smaller one (on equal areas the later one), and the
\* two thresholds are met.
Qualifies(p, q) ==
    /\ q \in 0..(Len(in0) - 1)
    /\ p # q
    /\ (IF p > q THEN p - q ELSE q - p) <= range
    /\ LET bp == in0[p + 1]
           bq == in0[q + 1]
       IN  /\ Area(bp) # 0
           /\ Area(bq) # 0
           /\ BoxOverlapArea(bp, bq) > 0
           /\ \/ Area(bp) < Area(bq)
              \/ Area(bp) = Area(bq) /\ p > q
           /\ RatioGE(BoxOverlapArea(bp, bq), Area(bp), min_overlap)
           /\ RatioLE(Area(bp), Area(bq), max_ratio)

\* C7: handle_overlaps returns exactly the boxes at the positions whose
\* final map entry is -1, in their original order: the boxes of the working
\* copy at those positions, which in L_REMOVE_SMALL mode are the input boxes
\* at those positions; on the documented example the result is [(0,0,10,10)].
C7_ReturnedAtDone ==
    /\ (pc = "done" /\ namap # << >> /\ op = "L_REMOVE_SMALL") =>
          /\ Len(Returned) = Cardinality(Unmapped)
          /\ \A k \in 1..Len(Returned) : Returned[k] = in0[Kth(Unmapped, k)]
    /\ (/\ pc = "done"
        /\ in0 = ExampleBoxa
        /\ op = "L_REMOVE_SMALL"
        /\ range = 1
        /\ min_overlap = <<0, 1>>
        /\ max_ratio = <<1, 1>>) => Returned = << Box(0, 0, 10, 10) >>

C7_ReturnStep ==
    [][(pc = "remove" /\ pc' = "done") =>
          /\ Len(heap'[result'].box) = Cardinality(Unmapped)
          /\ \A k \in 1..Cardinality(Unmapped) :
                heap'[result'].box[k] = heap[boxat].box[Kth(Unmapped, k)]]_vars

\* C7: the returned array holds the boxes at the unmapped positions, in
\* order, at the return step and in the state after it.
C7_ReturnsUnmapped == []C7_ReturnedAtDone /\ C7_ReturnStep

\* C7 witness: a call in L_REMOVE_SMALL mode on three boxes has returned
\* two of them, the first one removed.
C7_Witness ==
    /\ pc = "done"
    /\ op = "L_REMOVE_SMALL"
    /\ Len(in0) = 3
    /\ namap # << >>
    /\ namap[1] # -1
    /\ Len(Returned) = 2

\* C8: after the marking pass, a position has a non-sentinel entry exactly
\* when some position within range qualifies as its larger partner, and the
\* entry is the index of such a partner.
C8_MarkedIffQualifies ==
    Marked =>
        \A p \in 0..(Len(in0) - 1) :
            /\ namap[p + 1] # -1 <=> \E q \in 0..(Len(in0) - 1) : Qualifies(p, q)
            /\ namap[p + 1] # -1 => Qualifies(p, namap[p + 1])

\* C8 witness: the map is complete with a box marked against an earlier box
\* of the same area, and an overlapping pair that the thresholds left alone.
C8_Witness ==
    /\ Marked
    /\ \E p \in 1..Len(in0) :
          /\ namap[p] >= 0
          /\ namap[p] + 1 < p
          /\ Area(in0[p]) = Area(in0[namap[p] + 1])
    /\ \E p, q \in 1..Len(in0) :
          /\ p < q
          /\ q - p <= range
          /\ BoxOverlapArea(in0[p], in0[q]) > 0
          /\ namap[p] = -1
          /\ namap[q] = -1

\* C9: a box of zero area keeps the entry -1, no entry names its index, and
\* it is in the returned array, with its geometry, at the place its position
\* has among the retained ones.
C9_ZeroAreaKept ==
    (pc \in {"handle", "mark", "pair", "resize", "remove", "done"}) =>
        \A z \in 1..Len(in0) :
            Area(in0[z]) = 0 =>
                /\ namap # << >> =>
                      /\ namap[z] = -1
                      /\ \A p \in 1..Len(namap) : namap[p] # z - 1
                /\ pc = "done" =>
                      LET at == IF namap = << >>
                                THEN z
                                ELSE Cardinality({q \in Unmapped : q <= z})
                      IN  /\ at \in 1..Len(Returned)
                          /\ Returned[at] = in0[z]

\* C9 witness: a call in L_COMBINE mode has returned; a box of zero area
\* that intersects its non-empty neighbour follows a box that was removed.
C9_Witness ==
    /\ pc = "done"
    /\ op = "L_COMBINE"
    /\ namap # << >>
    /\ \E z \in 2..Len(in0) :
          /\ Area(in0[z]) = 0
          /\ Area(in0[z - 1]) # 0
          /\ BoxIntersects(in0[z], in0[z - 1])
          /\ \E p \in 1..(z - 1) : namap[p] >= 0

\* C10 as stated: during the marking pass an entry that has left -1 is
\* never written again.
C10_WrittenOnce ==
    [][\A p \in 1..Len(namap) : namap[p] # -1 => namap'[p] = namap[p]]_vars

\* C10 as amended: an entry that has left -1 never returns to -1, a pair
\* writes at most one entry, and every value written is the index of a box
\* that qualifies as the larger partner of the position; an entry can be
\* overwritten by a later qualifying pair (the last write wins).
C10_NeverUnmarked ==
    [][pc = "pair" =>
          /\ \A p \in 1..Len(namap) :
                /\ namap[p] # -1 => namap'[p] # -1
                /\ namap'[p] # namap[p] => Qualifies(p - 1, namap'[p])
          /\ Cardinality({p \in 1..Len(namap) : namap'[p] # namap[p]}) <= 1]_vars

\* C10 witness: the map is complete and a position has two qualifying
\* larger partners, as entry the later one.
C10_Witness ==
    /\ Marked
    /\ \E p, q1, q2 \in 0..(Len(in0) - 1) :
          /\ q1 < q2
          /\ Qualifies(p, q1)
          /\ Qualifies(p, q2)
          /\ namap[p + 1] = q2

\* C11 as stated: in L_COMBINE mode, after the replacement step, for every
\* position whose final map entry is m >= 0 the box of the working copy at m
\* contains the input box at that position and the input box at m, also
\* when several positions map to the same m.
C11_AbsorbsAll ==
    (pc = "remove" /\ op = "L_COMBINE") =>
        \A p \in 1..Len(namap) :
            namap[p] >= 0 =>
                /\ BoxContains(heap[boxat].box[namap[p] + 1], in0[p])
                /\ BoxContains(heap[boxat].box[namap[p] + 1], in0[namap[p] + 1])

(* ------------------------ the geometry functions ---------------------- *)
\* A mutation of BoxEqual: the heights are not compared.
BoxEqual_NoHeight(box1, box2) ==
    box1.x = box2.x /\ box1.y = box2.y /\ box1.w = box2.w

\* boxEqual: *psame is 1 iff the four fields agree.
BoxEqual(box1, box2) ==
    box1.x = box2.x /\ box1.y = box2.y /\ box1.w = box2.w /\ box1.h = box2.h

\* (l_float32)num / (l_float32)den, kept as <<num, den>>: the quotient of the
\* two integers when den # 0; under IEC 60559 arithmetic 0 / 0 is a NaN, kept
\* as <<0, 0>>, and num / 0 with num > 0 is +Inf, kept as <<num, 0>>.
FloatDiv(num, den) == <<num, den>>

\* The l_float32 value 0.0 that boxOverlapFraction stores on entry.
FloatZero == <<0, 1>>

\* f is a number and is 0.0;  f and g are numbers and are equal.
IsZero(f) == f[2] # 0 /\ f[1] = 0
FractEq(f, g) == f[2] # 0 /\ g[2] # 0 /\ f[1] * g[2] = g[1] * f[2]

\* boxOverlapFraction: *pfract is 0.0 when there is no overlap region,
\* otherwise the area of the region over the area of box2.
BoxOverlapFraction(box1, box2) ==
    LET boxo == BoxOverlapRegion(box1, box2)
    IN  IF boxo = << >>
        THEN FloatZero
        ELSE FloatDiv(boxo[1].w * boxo[1].h, box2.w * box2.h)

\* One call of a geometry function on a pair of boxes.
InitGeom ==
    /\ pc = "geom"
    /\ \E a, b \in BoxSet : args = [box1 |-> a, box2 |-> b]
    /\ ret = << >>
    /\ heap = [id \in BoxaIds |-> Freed]
    /\ boxas = NoBoxa
    /\ in0 = << >>
    /\ prev = << >>
    /\ result = NoBoxa
    /\ boxat1 = NoBoxa
    /\ boxat2 = NoBoxa
    /\ n1 = 0
    /\ niters = 0
    /\ i = 0
    /\ j = 0
    /\ op = "none"
    /\ range = 0
    /\ min_overlap = <<0, 1>>
    /\ max_ratio = <<1, 1>>
    /\ namap = << >>
    /\ boxat = NoBoxa
    /\ countarray = << >>
    /\ na = << >>

\* Everything but the position, the arguments and the return value.
callVars == <<heap, boxas, in0, prev, result, i, combineVars, handleVars>>

GeomContains ==
    /\ pc = "geom"
    /\ ret' = BoxContains(args.box1, args.box2)
    /\ pc' = "boxContains"
    /\ UNCHANGED <<args, callVars, countarray, na>>

GeomIntersects ==
    /\ pc = "geom"
    /\ ret' = BoxIntersects(args.box1, args.box2)
    /\ pc' = "boxIntersects"
    /\ UNCHANGED <<args, callVars, countarray, na>>

GeomOverlapRegion ==
    /\ pc = "geom"
    /\ ret' = BoxOverlapRegion(args.box1, args.box2)
    /\ pc' = "boxOverlapRegion"
    /\ UNCHANGED <<args, callVars, countarray, na>>

GeomBoundingRegion ==
    /\ pc = "geom"
    /\ ret' = BoxBoundingRegion(args.box1, args.box2)
    /\ pc' = "boxBoundingRegion"
    /\ UNCHANGED <<args, callVars, countarray, na>>

GeomOverlapFraction ==
    /\ pc = "geom"
    /\ ret' = BoxOverlapFraction(args.box1, args.box2)
    /\ pc' = "boxOverlapFraction"
    /\ UNCHANGED <<args, callVars, countarray, na>>

GeomOverlapArea ==
    /\ pc = "geom"
    /\ ret' = BoxOverlapArea(args.box1, args.box2)
    /\ pc' = "boxOverlapArea"
    /\ UNCHANGED <<args, callVars, countarray, na>>

GeomEqual ==
    /\ pc = "geom"
    /\ ret' = BoxEqual(args.box1, args.box2)
    /\ pc' = "boxEqual"
    /\ UNCHANGED <<args, callVars, countarray, na>>

\* boxSeparationDistance with both outputs asked for: *ph_sep and *pv_sep.
BoxSeparationDistance(box1, box2) ==
    LET l1 == box1.x
        l2 == box2.x
        r1 == l1 + box1.w
        r2 == l2 + box2.w
        t1 == box1.y
        t2 == box2.y
        b1 == t1 + box1.h
        b2 == t2 + box2.h
    IN  [h_sep |-> IF l2 >= l1 THEN l2 - r1 ELSE l1 - r2,
         v_sep |-> IF t2 >= t1 THEN t2 - b1 ELSE t1 - b2]

GeomSeparationDistance ==
    /\ pc = "geom"
    /\ ret' = BoxSeparationDistance(args.box1, args.box2)
    /\ pc' = "boxSeparationDistance"
    /\ UNCHANGED <<args, callVars, countarray, na>>

NextGeom ==
    \/ GeomSeparationDistance
    \/ GeomContains
    \/ GeomIntersects
    \/ GeomOverlapRegion
    \/ GeomBoundingRegion
    \/ GeomOverlapFraction
    \/ GeomOverlapArea
    \/ GeomEqual

SpecGeom == InitGeom /\ [][NextGeom]_vars

(* ------------------------ the geometry functions: claims -------------- *)
\* C12: intersects and bounding_region are symmetric: called on (a, b) they
\* return what they return on (b, a), the region with the same x, y, w, h.
C12_Symmetric ==
    /\ pc = "boxIntersects" => ret = BoxIntersects(args.box2, args.box1)
    /\ pc = "boxBoundingRegion" => ret = BoxBoundingRegion(args.box2, args.box1)

\* C12 witness: the bounding region of two boxes, neither of which holds
\* the other, one of them of zero area, has been returned.
C12_Witness ==
    /\ pc = "boxBoundingRegion"
    /\ ret # args.box1
    /\ ret # args.box2
    /\ Area(args.box1) = 0
    /\ Area(args.box2) # 0

\* C13: contains(a, b) and contains(b, a) both hold exactly when
\* boxes_equal(a, b) holds.
C13_MutualContainsIsEqual ==
    pc = "boxEqual" =>
        (ret <=> (BoxContains(args.box1, args.box2) /\ BoxContains(args.box2, args.box1)))

\* C13 witness: boxEqual has returned 0 for two boxes with the same origin,
\* the first of which contains the second.
C13_Witness ==
    /\ pc = "boxEqual"
    /\ ~ret
    /\ args.box1.x = args.box2.x
    /\ args.box1.y = args.box2.y
    /\ BoxContains(args.box1, args.box2)

\* C14: overlap_region(a, b) is defined exactly when intersects(a, b); the
\* region is contained in a and in b and has w, h >= 0; overlap_area(a, b) is
\* w * h of the region, and 0 when there is none.
C14_OverlapRegion ==
    /\ pc = "boxOverlapRegion" =>
          /\ ret # << >> <=> BoxIntersects(args.box1, args.box2)
          /\ ret # << >> =>
                /\ BoxContains(args.box1, ret[1])
                /\ BoxContains(args.box2, ret[1])
                /\ ret[1].w >= 0
                /\ ret[1].h >= 0
    /\ pc = "boxOverlapArea" =>
          LET region == BoxOverlapRegion(args.box1, args.box2)
          IN  /\ region = << >> => ret = 0
              /\ region # << >> => ret = region[1].w * region[1].h

\* C14 witness: the overlap region of a box of zero width with a box around
\* it has been returned, and it is not the whole of either box.
C14_Witness ==
    /\ pc = "boxOverlapRegion"
    /\ ret # << >>
    /\ args.box1.w = 0
    /\ args.box2.w > 0
    /\ ret[1] # args.box1
    /\ ret[1] # args.box2

\* C15 as stated: overlap_fraction(a, b) is 0 whenever a and b do not overlap
\* or either box has zero area, with no division by a zero area of b;
\* otherwise it is overlap_area(a, b) / area(b).
C15_ZeroOrQuotient ==
    pc = "boxOverlapFraction" =>
        IF \/ ~BoxIntersects(args.box1, args.box2)
           \/ Area(args.box1) = 0
           \/ Area(args.box2) = 0
        THEN IsZero(ret)
        ELSE FractEq(ret, <<BoxOverlapArea(args.box1, args.box2), Area(args.box2)>>)

(* ------------------------------ boxaEqual ----------------------------- *)
\* Largest maxdist argument.
MaxDist == 2

\* The boxes of the arrays compared: the two boxes of the documented example
\* and a box that differs from the first in its height alone.
EqualBoxSet == {Box(0, 0, 1, 1), Box(2, 2, 1, 1), Box(0, 0, 1, 2)}

EqualBoxaSet == UNION {[1..n -> EqualBoxSet] : n \in 0..MaxLen}

\* A mutation of FirstEqual: the inner loop runs to the end of boxa2.
FirstEqual_WideWindow(boxa1, boxa2, cnt, ii, maxdist) ==
    LET n == Len(boxa1)
        jstart == L_MAX(0, ii - maxdist)
        jend == n - 1
        hits == {jj \in jstart..jend :
                    BoxEqual(boxa1[ii + 1], boxa2[jj + 1]) /\ cnt[jj + 1] = 0}
    IN  IF hits = {} THEN -1 ELSE CHOOSE jj \in hits : \A k \in hits : jj <= k

\* A mutation of FirstEqual: a position of boxa2 can be claimed again.
FirstEqual_NoCount(boxa1, boxa2, cnt, ii, maxdist) ==
    LET n == Len(boxa1)
        jstart == L_MAX(0, ii - maxdist)
        jend == L_MIN(n - 1, ii + maxdist)
        hits == {jj \in jstart..jend : BoxEqual(boxa1[ii + 1], boxa2[jj + 1])}
    IN  IF hits = {} THEN -1 ELSE CHOOSE jj \in hits : \A k \in hits : jj <= k

\* The inner loop for the 0-based position ii of boxa1: the lowest j in
\* jstart..jend whose box of boxa2 is equal and not yet counted, -1 if none.
FirstEqual(boxa1, boxa2, cnt, ii, maxdist) ==
    LET n == Len(boxa1)
        jstart == L_MAX(0, ii - maxdist)
        jend == L_MIN(n - 1, ii + maxdist)
        hits == {jj \in jstart..jend :
                    BoxEqual(boxa1[ii + 1], boxa2[jj + 1]) /\ cnt[jj + 1] = 0}
    IN  IF hits = {} THEN -1 ELSE CHOOSE jj \in hits : \A k \in hits : jj <= k

\* *pnaindex: << >> while it is NULL, << na >> when the index array is
\* handed out.
NoNuma == << >>

InitEqual ==
    /\ pc = "boxaEqual"
    /\ \E b1, b2 \in EqualBoxaSet : \E d \in 0..MaxDist : \E want \in BOOLEAN :
          args = [boxa1 |-> b1, boxa2 |-> b2, maxdist |-> d, pnaindex |-> want]
    /\ ret = << >>
    /\ heap = [id \in BoxaIds |-> Freed]
    /\ boxas = NoBoxa
    /\ in0 = << >>
    /\ prev = << >>
    /\ result = NoBoxa
    /\ boxat1 = NoBoxa
    /\ boxat2 = NoBoxa
    /\ n1 = 0
    /\ niters = 0
    /\ i = 0
    /\ j = 0
    /\ op = "none"
    /\ range = 0
    /\ min_overlap = <<0, 1>>
    /\ max_ratio = <<1, 1>>
    /\ namap = << >>
    /\ boxat = NoBoxa
    /\ countarray = << >>
    /\ na = << >>

\* Everything boxaEqual leaves alone but its loop index.
equalFrame == <<args, heap, boxas, in0, prev, result, combineVars, handleVars>>

\* Entry: *pnaindex = NULL, *psame = 0; arrays of different sizes return at
\* once, otherwise countarray and na are allocated, filled with 0.
EqualStart ==
    /\ pc = "boxaEqual"
    /\ LET n == Len(args.boxa1)
       IN  IF n # Len(args.boxa2)
           THEN /\ ret' = [same |-> 0, naindex |-> NoNuma]
                /\ pc' = "returned"
                /\ UNCHANGED <<countarray, na, i>>
           ELSE /\ countarray' = [k \in 1..n |-> 0]
                /\ na' = [k \in 1..n |-> 0]
                /\ i' = 0
                /\ pc' = "search"
                /\ UNCHANGED ret
    /\ UNCHANGED equalFrame

\* One iteration of the outer loop: the box at i of boxa1 claims the first
\* equal, unclaimed box of boxa2 in its window, or the function returns
\* with *psame = 0 and na destroyed.
EqualStep ==
    /\ pc = "search"
    /\ i < Len(args.boxa1)
    /\ LET found == FirstEqual(args.boxa1, args.boxa2, countarray, i, args.maxdist)
       IN  IF found >= 0
           THEN /\ countarray' = [countarray EXCEPT ![found + 1] = 1]
                /\ na' = [na EXCEPT ![i + 1] = found]
                /\ i' = i + 1
                /\ UNCHANGED <<pc, ret>>
           ELSE /\ ret' = [same |-> 0, naindex |-> NoNuma]
                /\ pc' = "returned"
                /\ UNCHANGED <<countarray, na, i>>
    /\ UNCHANGED equalFrame

\* After the loop: *psame = 1, and na is handed out if it was asked for.
EqualReturn ==
    /\ pc = "search"
    /\ i = Len(args.boxa1)
    /\ ret' = [same |-> 1, naindex |-> IF args.pnaindex THEN << na >> ELSE NoNuma]
    /\ pc' = "returned"
    /\ UNCHANGED <<countarray, na, i>>
    /\ UNCHANGED equalFrame

NextEqual ==
    \/ EqualStart
    \/ EqualStep
    \/ EqualReturn

SpecEqual == InitEqual /\ [][NextEqual]_vars

(* ------------------------------ boxaEqual: claims --------------------- *)
\* p, a map of the positions 1..n to themselves, is a matching of c1 to c2
\* within the distance d.
IsMatching(p, c1, c2, d) ==
    \A k \in 1..Len(c1) :
        /\ p[k] - k <= d
        /\ k - p[k] <= d
        /\ BoxEqual(c1[k], c2[p[k]])

\* C16: collections_equal reports a match exactly when the arrays have the
\* same size and some bijection of the positions moves no position by more
\* than maxdist and maps every box of c1 to an equal box of c2; with
\* maxdist = 0 that is equality position by position; the two boxes of the
\* documented example in swapped order match for maxdist = 1 and do not for
\* maxdist = 0.
C16_MatchIffBijection ==
    pc = "returned" =>
        LET c1 == args.boxa1
            c2 == args.boxa2
        IN  /\ ret.same = 1 <=>
                  /\ Len(c1) = Len(c2)
                  /\ \E p \in Perms(Len(c1)) : IsMatching(p, c1, c2, args.maxdist)
            /\ args.maxdist = 0 => (ret.same = 1 <=> c1 = c2)
            /\ (/\ c1 = << Box(0, 0, 1, 1), Box(2, 2, 1, 1) >>
                /\ c2 = << Box(2, 2, 1, 1), Box(0, 0, 1, 1) >>) =>
                  /\ args.maxdist = 1 => ret.same = 1
                  /\ args.maxdist = 0 => ret.same = 0

\* C16 witness: a match has been reported for two different arrays of three
\* boxes that have more than one matching, so that the search had a choice.
C16_Witness ==
    /\ pc = "returned"
    /\ ret.same = 1
    /\ Len(args.boxa1) = 3
    /\ args.boxa1 # args.boxa2
    /\ Cardinality({p \in Perms(3) :
                       IsMatching(p, args.boxa1, args.boxa2, args.maxdist)}) >= 2

\* C17: when a match is reported and the index map was asked for, the map is
\* a permutation of 0..n-1, no entry is further than maxdist from its
\* position, and the box of c2 at the entry equals the box of c1 at the
\* position; when no match is reported, no index map is returned.
C17_IndexMap ==
    pc = "returned" =>
        /\ (ret.same = 1 /\ args.pnaindex) =>
              LET n == Len(args.boxa1)
                  idx == ret.naindex[1]
              IN  /\ ret.naindex # NoNuma
                  /\ Len(idx) = n
                  /\ \A k \in 1..n : idx[k] \in 0..(n - 1)
                  /\ \A k, m \in 1..n : idx[k] = idx[m] => k = m
                  /\ \A k \in 1..n :
                        /\ idx[k] - (k - 1) <= args.maxdist
                        /\ (k - 1) - idx[k] <= args.maxdist
                        /\ BoxEqual(args.boxa1[k], args.boxa2[idx[k] + 1])
        /\ ret.same = 0 => ret.naindex = NoNuma
        /\ ~args.pnaindex => ret.naindex = NoNuma

\* C17 witness: an index map that moves every one of three positions has
\* been returned.
C17_Witness ==
    /\ pc = "returned"
    /\ ret.same = 1
    /\ args.pnaindex
    /\ ret.naindex # NoNuma
    /\ Len(ret.naindex[1]) = 3
    /\ \A k \in 1..3 : ret.naindex[1][k] # k - 1

(* ------------------- boxaSplitEvenOdd, boxaMergeEvenOdd --------------- *)
\* The boxes of the arrays split and merged: three boxes that differ and the
\* empty placeholder, which can be a box of the input as well.
EvenOddBoxSet == EqualBoxSet \cup {Box(0, 0, 0, 0)}

EvenOddBoxaSet == UNION {[1..n -> EvenOddBoxSet] : n \in 0..MaxLen}

\* boxaGetBox(boxa, index, L_COPY): << box >>, or << >> (NULL) for an index
\* that is not one of the array.
BoxaGetBox(boxa, index) ==
    IF index \in 0..(Len(boxa) - 1) THEN << boxa[index + 1] >> ELSE << >>

\* boxaAddBox(boxa, box, L_INSERT): the array with the box at its end; a NULL
\* box is an error and leaves the array as it was.
BoxaAddBox(boxa, box) ==
    IF box = << >> THEN boxa ELSE Append(boxa, box[1])

\* A mutation of SplitFrom: no placeholders are put in, whatever fillflag.
RECURSIVE SplitFrom_NoPlaceholder(_, _, _, _, _)
SplitFrom_NoPlaceholder(boxa, fillflag, k, ae, ao) ==
    IF k >= Len(boxa)
    THEN [boxae |-> ae, boxao |-> ao]
    ELSE LET box == BoxaGetBox(boxa, k)
         IN  IF k % 2 = 0
             THEN SplitFrom_NoPlaceholder(boxa, fillflag, k + 1, BoxaAddBox(ae, box), ao)
             ELSE SplitFrom_NoPlaceholder(boxa, fillflag, k + 1, ae, BoxaAddBox(ao, box))

\* The loops of boxaSplitEvenOdd from the 0-based index k on, ae and ao the
\* arrays *pboxae and *pboxao built so far.
RECURSIVE SplitFrom(_, _, _, _, _)
SplitFrom(boxa, fillflag, k, ae, ao) ==
    IF k >= Len(boxa)
    THEN [boxae |-> ae, boxao |-> ao]
    ELSE LET box == BoxaGetBox(boxa, k)
             boxt == << Box(0, 0, 0, 0) >>
         IN  IF fillflag = 0
             THEN IF k % 2 = 0
                  THEN SplitFrom(boxa, fillflag, k + 1, BoxaAddBox(ae, box), ao)
                  ELSE SplitFrom(boxa, fillflag, k + 1, ae, BoxaAddBox(ao, box))
             ELSE IF k % 2 = 0
                  THEN SplitFrom(boxa, fillflag, k + 1,
                                 BoxaAddBox(ae, box), BoxaAddBox(ao, boxt))
                  ELSE SplitFrom(boxa, fillflag, k + 1,
                                 BoxaAddBox(ae, boxt), BoxaAddBox(ao, box))

\* boxaSplitEvenOdd: the two arrays it stores in *pboxae and *pboxao.
BoxaSplitEvenOdd(boxa, fillflag) == SplitFrom(boxa, fillflag, 0, << >>, << >>)

\* A mutation of MergeFrom: the half-sized arrays are read at i, not at i / 2.
RECURSIVE MergeFrom_NoHalf(_, _, _, _, _, _)
MergeFrom_NoHalf(boxae, boxao, fillflag, k, n, ad) ==
    IF k >= n
    THEN ad
    ELSE LET box == IF k % 2 = 0 THEN BoxaGetBox(boxae, k) ELSE BoxaGetBox(boxao, k)
         IN  MergeFrom_NoHalf(boxae, boxao, fillflag, k + 1, n, BoxaAddBox(ad, box))

\* The loop of boxaMergeEvenOdd from the 0-based index k up to n, ad the
\* array boxad built so far.
RECURSIVE MergeFrom(_, _, _, _, _, _)
MergeFrom(boxae, boxao, fillflag, k, n, ad) ==
    IF k >= n
    THEN ad
    ELSE LET box == IF fillflag = 0
                    THEN IF k % 2 = 0
                         THEN BoxaGetBox(boxae, k \div 2)
                         ELSE BoxaGetBox(boxao, k \div 2)
                    ELSE IF k % 2 = 0
                         THEN BoxaGetBox(boxae, k)
                         ELSE BoxaGetBox(boxao, k)
         IN  MergeFrom(boxae, boxao, fillflag, k + 1, n, BoxaAddBox(ad, box))

\* boxaMergeEvenOdd: << boxad >>, or << >> (NULL, "boxa sizes invalid").
BoxaMergeEvenOdd(boxae, boxao, fillflag) ==
    LET ne == Len(boxae)
        no == Len(boxao)
    IN  IF ne < no \/ ne > no + 1
        THEN << >>
        ELSE << MergeFrom(boxae, boxao, fillflag, 0,
                          IF fillflag = 0 THEN ne + no ELSE ne, << >>) >>

\* A call of boxaSplitEvenOdd on an array, or a call of boxaMergeEvenOdd on
\* two arrays of the caller.
InitEvenOdd ==
    /\ \/ /\ pc = "split"
          /\ \E b \in EvenOddBoxaSet : \E f \in {0, 1} :
                args = [boxa |-> b, fillflag |-> f]
       \/ /\ pc = "merge"
          /\ \E be, bo \in EvenOddBoxaSet : \E f \in {0, 1} :
                args = [boxae |-> be, boxao |-> bo, fillflag |-> f]
    /\ ret = << >>
    /\ heap = [id \in BoxaIds |-> Freed]
    /\ boxas = NoBoxa
    /\ in0 = << >>
    /\ prev = << >>
    /\ result = NoBoxa
    /\ boxat1 = NoBoxa
    /\ boxat2 = NoBoxa
    /\ n1 = 0
    /\ niters = 0
    /\ i = 0
    /\ j = 0
    /\ op = "none"
    /\ range = 0
    /\ min_overlap = <<0, 1>>
    /\ max_ratio = <<1, 1>>
    /\ namap = << >>
    /\ boxat = NoBoxa
    /\ countarray = << >>
    /\ na = << >>

\* What the utility functions leave alone.
utilFrame == <<heap, boxas, in0, result, i, combineVars, handleVars, countarray, na>>

\* boxaSplitEvenOdd returns; the caller passes the two arrays to
\* boxaMergeEvenOdd with the same fillflag.
SplitEvenOdd ==
    /\ pc = "split"
    /\ LET out == BoxaSplitEvenOdd(args.boxa, args.fillflag)
       IN  /\ ret' = out
           /\ prev' = Append(prev, [in |-> args, out |-> out])
           /\ args' = [boxae |-> out.boxae, boxao |-> out.boxao,
                       fillflag |-> args.fillflag]
    /\ pc' = "merge"
    /\ UNCHANGED utilFrame

MergeEvenOdd ==
    /\ pc = "merge"
    /\ LET out == BoxaMergeEvenOdd(args.boxae, args.boxao, args.fillflag)
       IN  /\ ret' = out
           /\ prev' = Append(prev, [in |-> args, out |-> out])
    /\ pc' = "merged"
    /\ UNCHANGED <<args, utilFrame>>

NextEvenOdd ==
    \/ SplitEvenOdd
    \/ MergeEvenOdd

SpecEvenOdd == InitEvenOdd /\ [][NextEvenOdd]_vars

(* ------------------- split and merge: claims -------------------------- *)
\* C18: merge_even_odd of the two arrays split_even_odd made of an array B,
\* with the same fill flag, is B element for element, for every length of B
\* and both values of the flag.
C18_RoundTrip ==
    (pc = "merged" /\ Len(prev) = 2) => ret = << prev[1].in.boxa >>

\* C18 witness: an array of three boxes with a placeholder among them has
\* been split with placeholders filled in and merged again.
C18_Witness ==
    /\ pc = "merged"
    /\ Len(prev) = 2
    /\ args.fillflag = 1
    /\ Len(prev[1].in.boxa) = 3
    /\ prev[1].in.boxa[2] = Box(0, 0, 0, 0)
    /\ prev[1].in.boxa[1] # prev[1].in.boxa[3]

\* C19 as stated: merge_even_odd fails unless |evens| = |odds| or
\* |evens| = |odds| + 1; for every accepted pair of sizes the result has
\* |evens| + |odds| boxes in unfilled mode and |evens| boxes in filled mode,
\* the box at an even position taken from evens and the box at an odd
\* position from odds.
C19_MergeSizes ==
    pc = "merged" =>
        LET ne == Len(args.boxae)
            no == Len(args.boxao)
            n == IF args.fillflag = 0 THEN ne + no ELSE ne
        IN  /\ ret = << >> <=> ~(ne = no \/ ne = no + 1)
            /\ ret # << >> =>
                  /\ Len(ret[1]) = n
                  /\ \A k \in 0..(n - 1) :
                        LET from == IF k % 2 = 0 THEN args.boxae ELSE args.boxao
                            at == IF args.fillflag = 0 THEN k \div 2 ELSE k
                        IN  /\ at < Len(from)
                            /\ k < Len(ret[1])
                            /\ ret[1][k + 1] = from[at + 1]

(* ------------------------ boxClipToRectangle -------------------------- *)
\* Largest distance of the origin of a clipped box from (0, 0), and largest
\* size of the clipping rectangle; the sizes run down to -MaxClip.
MaxClip == 2

\* The boxes clipped: on either side of the origin, w and h large enough to
\* reach across a rectangle.
ClipBoxSet ==
    {Box(x, y, w, h) : x \in (-MaxClip)..MaxClip, y \in (-MaxClip)..MaxClip,
                       w \in 0..(MaxW + 1), h \in 0..(MaxH + 1)}

\* boxClipToRectangle: << >> (NULL) for a box outside the rectangle, else
\* << boxd >>, the copy of the box after the four adjustments in turn.
BoxClipToRectangle(box, wi, hi) ==
    IF \/ box.x >= wi
       \/ box.y >= hi
       \/ box.x + box.w <= 0
       \/ box.y + box.h <= 0
    THEN << >>
    ELSE LET d1 == IF box.x < 0 THEN [box EXCEPT !.w = box.w + box.x, !.x = 0] ELSE box
             d2 == IF d1.y < 0 THEN [d1 EXCEPT !.h = d1.h + d1.y, !.y = 0] ELSE d1
             d3 == IF d2.x + d2.w > wi THEN [d2 EXCEPT !.w = wi - d2.x] ELSE d2
             d4 == IF d3.y + d3.h > hi THEN [d3 EXCEPT !.h = hi - d3.y] ELSE d3
         IN  << d4 >>

InitClip ==
    /\ pc = "clip"
    /\ \E b \in ClipBoxSet : \E wd, ht \in (-MaxClip)..MaxClip :
          args = [box |-> b, wi |-> wd, hi |-> ht]
    /\ ret = << >>
    /\ heap = [id \in BoxaIds |-> Freed]
    /\ boxas = NoBoxa
    /\ in0 = << >>
    /\ prev = << >>
    /\ result = NoBoxa
    /\ boxat1 = NoBoxa
    /\ boxat2 = NoBoxa
    /\ n1 = 0
    /\ niters = 0
    /\ i = 0
    /\ j = 0
    /\ op = "none"
    /\ range = 0
    /\ min_overlap = <<0, 1>>
    /\ max_ratio = <<1, 1>>
    /\ namap = << >>
    /\ boxat = NoBoxa
    /\ countarray = << >>
    /\ na = << >>

ClipToRectangle ==
    /\ pc = "clip"
    /\ ret' = BoxClipToRectangle(args.box, args.wi, args.hi)
    /\ pc' = "clipped"
    /\ UNCHANGED <<args, prev, utilFrame>>

NextClip == ClipToRectangle

SpecClip == InitClip /\ [][NextClip]_vars

(* ------------------------ boxClipToRectangle: claims ------------------ *)
\* C20 as stated: clip_to_rectangle returns none exactly when x >= width,
\* y >= height, x + w <= 0 or y + h <= 0; otherwise it returns a box with
\* x, y, w, h >= 0, x + w <= width and y + h <= height that is contained in
\* the original box; for all integer widths and heights.
C20_ClipInside ==
    pc = "clipped" =>
        LET b == args.box
        IN  /\ ret = << >> <=>
                  \/ b.x >= args.wi
                  \/ b.y >= args.hi
                  \/ b.x + b.w <= 0
                  \/ b.y + b.h <= 0
            /\ ret # << >> =>
                  /\ ret[1].x >= 0
                  /\ ret[1].y >= 0
                  /\ ret[1].w >= 0
                  /\ ret[1].h >= 0
                  /\ ret[1].x + ret[1].w <= args.wi
                  /\ ret[1].y + ret[1].h <= args.hi
                  /\ BoxContains(b, ret[1])
                  /\ (b.x < 0 /\ b.y < 0) =>
                        /\ ret[1].x = 0
                        /\ ret[1].y = 0
                        /\ ret[1].w < b.w
                        /\ ret[1].h < b.h

(* ------------------------ boxRelocateOneSide -------------------------- *)
\* The state of a run in which boxaCombineOverlaps, boxaHandleOverlaps and
\* boxaEqual are not called.
UtilIdle ==
    /\ heap = [id \in BoxaIds |-> Freed]
    /\ boxas = NoBoxa
    /\ in0 = << >>
    /\ prev = << >>
    /\ result = NoBoxa
    /\ boxat1 = NoBoxa
    /\ boxat2 = NoBoxa
    /\ n1 = 0
    /\ niters = 0
    /\ i = 0
    /\ j = 0
    /\ op = "none"
    /\ range = 0
    /\ min_overlap = <<0, 1>>
    /\ max_ratio = <<1, 1>>
    /\ namap = << >>
    /\ boxat = NoBoxa
    /\ countarray = << >>
    /\ na = << >>

\* boxSetGeometry(box, x, y, w, h): each field is stored unless its argument
\* is -1, the value the callers pass for a field that is to stay.
BoxSetGeometry(box, x, y, w, h) ==
    [x |-> IF x # -1 THEN x ELSE box.x,
     y |-> IF y # -1 THEN y ELSE box.y,
     w |-> IF w # -1 THEN w ELSE box.w,
     h |-> IF h # -1 THEN h ELSE box.h]

\* The values of sideflag; "other" is any value that is none of the four.
SideFlags == {"L_FROM_LEFT", "L_FROM_RIGHT", "L_FROM_TOP", "L_FROM_BOT", "other"}

\* The destination boxes: NULL (a copy of boxs is made), boxs itself, or a
\* box of the caller.
OtherBox == Box(1, 1, 1, 1)

\* boxRelocateOneSide, boxs not NULL: << boxd >> with the geometry boxd has
\* on return; dest is << >> for boxd == NULL, else << the box boxd points to >>.
BoxRelocateOneSide(dest, boxs, loc, sideflag) ==
    LET boxd == IF dest = << >> THEN boxs ELSE dest[1]
        x == boxs.x
        y == boxs.y
        w == boxs.w
        h == boxs.h
    IN  IF sideflag = "L_FROM_LEFT"
        THEN << BoxSetGeometry(boxd, loc, -1, w + x - loc, -1) >>
        ELSE IF sideflag = "L_FROM_RIGHT"
        THEN << BoxSetGeometry(boxd, -1, -1, loc - x + 1, -1) >>
        ELSE IF sideflag = "L_FROM_TOP"
        THEN << BoxSetGeometry(boxd, -1, loc, -1, h + y - loc) >>
        ELSE IF sideflag = "L_FROM_BOT"
        THEN << BoxSetGeometry(boxd, -1, -1, -1, loc - y + 1) >>
        ELSE << boxd >>

InitRelocate ==
    /\ pc = "relocate"
    /\ \E b \in BoxSet : \E d \in {"NULL", "boxs", "other"} :
       \E l \in (-1)..(MaxX + MaxW + 1) : \E f \in SideFlags :
          args = [boxd |-> d, boxs |-> b, loc |-> l, sideflag |-> f]
    /\ ret = << >>
    /\ UtilIdle

RelocateOneSide ==
    /\ pc = "relocate"
    /\ ret' = BoxRelocateOneSide(
                  IF args.boxd = "NULL" THEN << >>
                  ELSE IF args.boxd = "boxs" THEN << args.boxs >>
                  ELSE << OtherBox >>,
                  args.boxs, args.loc, args.sideflag)
    /\ pc' = "relocated"
    /\ UNCHANGED <<args, prev, utilFrame>>

NextRelocate == RelocateOneSide

SpecRelocate == InitRelocate /\ [][NextRelocate]_vars

(* ------------------------ boxRelocateOneSide: claims ------------------ *)
\* The width or height the box gets when the side is moved to loc.
NewExtent(boxs, loc, sideflag) ==
    IF sideflag = "L_FROM_LEFT" THEN boxs.w + boxs.x - loc
    ELSE IF sideflag = "L_FROM_RIGHT" THEN loc - boxs.x + 1
    ELSE IF sideflag = "L_FROM_TOP" THEN boxs.h + boxs.y - loc
    ELSE loc - boxs.y + 1

\* C21 as stated: relocate_one_side returns none whenever moving the side to
\* the new coordinate would give a width or height <= 0, and then no box of
\* non-positive extent is produced or written into the destination.
C21_FailsOnNonPositive ==
    (/\ pc = "relocated"
     /\ args.sideflag # "other"
     /\ args.boxs.w >= 1
     /\ args.boxs.h >= 1
     /\ NewExtent(args.boxs, args.loc, args.sideflag) <= 0) =>
        /\ ret = << >>
        /\ \A k \in 1..Len(ret) : ret[k].w >= 1 /\ ret[k].h >= 1

(* ------------------------ boxSimilar, boxaSimilar --------------------- *)
L_ABS(a) == IF a < 0 THEN -a ELSE a

\* boxGetSideLocations: the left, right, top and bottom pixel of the box.
BoxGetSideLocations(box) ==
    [l |-> box.x, r |-> box.x + box.w - 1, t |-> box.y, b |-> box.y + box.h - 1]

\* boxSimilar: *psimilar is 1 unless a pair of sides differs by more than
\* its allowed deviation.
BoxSimilar(box1, box2, leftdiff, rightdiff, topdiff, botdiff) ==
    LET s1 == BoxGetSideLocations(box1)
        s2 == BoxGetSideLocations(box2)
    IN  /\ ~(L_ABS(s1.l - s2.l) > leftdiff)
        /\ ~(L_ABS(s1.r - s2.r) > rightdiff)
        /\ ~(L_ABS(s1.t - s2.t) > topdiff)
        /\ ~(L_ABS(s1.b - s2.b) > botdiff)

\* The boxes of the arrays compared by boxaSimilar.
SimilarBoxSet == {Box(0, 0, 1, 1), Box(1, 0, 1, 1), Box(0, 0, 1, 2)}

SimilarBoxaSet == UNION {[1..n -> SimilarBoxSet] : n \in 0..MaxLen}

\* The values of <<leftdiff, rightdiff, topdiff, botdiff>>.
SimilarDiffs == {<<0, 0, 0, 0>>, <<1, 1, 0, 0>>, <<1, 0, 1, 1>>}

InitSimilar ==
    /\ pc = "boxaSimilar"
    /\ \E b1, b2 \in SimilarBoxaSet : \E d \in SimilarDiffs :
       \E dbg \in {0, 1} : \E want \in BOOLEAN :
          args = [boxa1 |-> b1, boxa2 |-> b2, diffs |-> d, debug |-> dbg,
                  pnasim |-> want]
    /\ ret = << >>
    /\ UtilIdle

\* What boxaSimilar leaves alone.
similarFrame == <<args, heap, boxas, in0, prev, result, combineVars, handleVars,
                  countarray, na>>

\* Entry: *psimilar = 0, *pnasim = NULL; arrays of different sizes are an
\* error (return 1); otherwise *pnasim = numaCreate(n1), mismatch = FALSE.
SimilarStart ==
    /\ pc = "boxaSimilar"
    /\ IF Len(args.boxa1) # Len(args.boxa2)
       THEN /\ ret' = [status |-> 1, similar |-> 0, nasim |-> << >>,
                       mismatch |-> FALSE]
            /\ pc' = "similar_done"
       ELSE /\ ret' = [status |-> 0, similar |-> 0,
                       nasim |-> IF args.pnasim THEN << << >> >> ELSE << >>,
                       mismatch |-> FALSE]
            /\ pc' = "similar"
    /\ i' = 0
    /\ UNCHANGED similarFrame

\* A mutation of SimilarStep: mismatch is assigned the outcome of the last
\* pair, so that a later match clears it.
SimilarStep_LastPair ==
    /\ pc = "similar"
    /\ i < Len(args.boxa1)
    /\ LET match == BoxSimilar(args.boxa1[i + 1], args.boxa2[i + 1], args.diffs[1],
                               args.diffs[2], args.diffs[3], args.diffs[4])
           nasim == IF args.pnasim
                    THEN << Append(ret.nasim[1], IF match THEN 1 ELSE 0) >>
                    ELSE ret.nasim
       IN  IF ~match /\ args.debug = 0 /\ ~args.pnasim
           THEN /\ ret' = [ret EXCEPT !.nasim = nasim, !.mismatch = TRUE]
                /\ pc' = "similar_done"
                /\ UNCHANGED i
           ELSE /\ ret' = [ret EXCEPT !.nasim = nasim, !.mismatch = ~match]
                /\ i' = i + 1
                /\ UNCHANGED pc
    /\ UNCHANGED similarFrame

\* One iteration of the loop: the pair at i is tested, its flag is added to
\* *pnasim if there is one; on a mismatch the function returns at once
\* unless debug is set or *pnasim was asked for.
SimilarStep ==
    /\ pc = "similar"
    /\ i < Len(args.boxa1)
    /\ LET match == BoxSimilar(args.boxa1[i + 1], args.boxa2[i + 1], args.diffs[1],
                               args.diffs[2], args.diffs[3], args.diffs[4])
           nasim == IF args.pnasim
                    THEN << Append(ret.nasim[1], IF match THEN 1 ELSE 0) >>
                    ELSE ret.nasim
       IN  IF ~match /\ args.debug = 0 /\ ~args.pnasim
           THEN /\ ret' = [ret EXCEPT !.nasim = nasim, !.mismatch = TRUE]
                /\ pc' = "similar_done"
                /\ UNCHANGED i
           ELSE /\ ret' = [ret EXCEPT !.nasim = nasim,
                                      !.mismatch = ret.mismatch \/ ~match]
                /\ i' = i + 1
                /\ UNCHANGED pc
    /\ UNCHANGED similarFrame

\* After the loop: if (!mismatch) *psimilar = 1.
SimilarReturn ==
    /\ pc = "similar"
    /\ i = Len(args.boxa1)
    /\ ret' = [ret EXCEPT !.similar = IF ret.mismatch THEN 0 ELSE 1]
    /\ pc' = "similar_done"
    /\ UNCHANGED i
    /\ UNCHANGED similarFrame

NextSimilar ==
    \/ SimilarStart
    \/ SimilarStep
    \/ SimilarReturn

SpecSimilar == InitSimilar /\ [][NextSimilar]_vars

(* ------------------------ boxaSimilar: claims ------------------------- *)
\* boxes_similar at the 1-based position k of the two arrays compared.
SimilarAt(k) ==
    LET sa == BoxGetSideLocations(args.boxa1[k])
        sb == BoxGetSideLocations(args.boxa2[k])
    IN  /\ L_ABS(sa.l - sb.l) <= args.diffs[1]
        /\ L_ABS(sa.r - sb.r) <= args.diffs[2]
        /\ L_ABS(sa.t - sb.t) <= args.diffs[3]
        /\ L_ABS(sa.b - sb.b) <= args.diffs[4]

\* C22: for two arrays of equal size, collections_similar reports
\* allSimilar = true exactly when boxes_similar holds at every position,
\* whatever the debug flag and whether or not the per-pair flags are
\* requested; requested flags have exactly one entry per position.
C22_AllSimilar ==
    (pc = "similar_done" /\ Len(args.boxa1) = Len(args.boxa2)) =>
        LET n == Len(args.boxa1)
        IN  /\ ret.status = 0
            /\ ret.similar = 1 <=> \A k \in 1..n : SimilarAt(k)
            /\ args.pnasim =>
                  /\ ret.nasim # << >>
                  /\ Len(ret.nasim[1]) = n
                  /\ \A k \in 1..n : ret.nasim[1][k] = 1 <=> SimilarAt(k)
            /\ ~args.pnasim => ret.nasim = << >>

\* C22 witness: with the per-pair flags requested, three pairs have been
\* tested; the first is not similar and the last is.
C22_Witness ==
    /\ pc = "similar_done"
    /\ args.pnasim
    /\ ret.nasim # << >>
    /\ Len(ret.nasim[1]) = 3
    /\ ret.nasim[1][1] = 0
    /\ ret.nasim[1][3] = 1
    /\ ret.similar = 0

(* ------------------------ boxSeparationDistance: claims --------------- *)
\* C23 as stated: for boxes a, b with w, h >= 1 the horizontal and the
\* vertical separation of (a, b) are those of (b, a); each is 0 when the
\* boxes abut on that axis with no shared pixel and negative when they
\* overlap on that axis.
C23_AnyOrder ==
    (/\ pc = "boxSeparationDistance"
     /\ args.box1.w >= 1 /\ args.box1.h >= 1
     /\ args.box2.w >= 1 /\ args.box2.h >= 1) =>
        LET a == args.box1
            b == args.box2
        IN  /\ ret = BoxSeparationDistance(b, a)
            /\ (a.x + a.w = b.x \/ b.x + b.w = a.x) => ret.h_sep = 0
            /\ (a.y + a.h = b.y \/ b.y + b.h = a.y) => ret.v_sep = 0
            /\ (a.x < b.x + b.w /\ b.x < a.x + a.w) => ret.h_sep < 0
            /\ (a.y < b.y + b.h /\ b.y < a.y + a.h) => ret.v_sep < 0

(* ------------ boxaAdjustWidthToTarget, boxaAdjustHeightToTarget ------- *)
\* Largest target and largest thresh argument.
MaxTarget == 3
MaxThresh == 2

\* diff / 2 of two l_int32: the quotient truncated toward zero.
HalfOf(diff) == IF diff >= 0 THEN diff \div 2 ELSE -((-diff) \div 2)

\* The boxes adjusted: a box of zero width, one of zero height, a small and
\* a large box, and a box with a negative origin.
AdjustBoxSet ==
    {Box(0, 0, 0, 2), Box(1, 1, 2, 0), Box(1, 1, 1, 1), Box(0, 2, 3, 3), Box(-1, -1, 2, 2)}

AdjustBoxaSet == UNION {[1..n -> AdjustBoxSet] : n \in 0..MaxLen}

\* The values of sides; "other" is any value that is none of the six.
AdjustSides ==
    {"L_ADJUST_LEFT", "L_ADJUST_RIGHT", "L_ADJUST_LEFT_AND_RIGHT",
     "L_ADJUST_TOP", "L_ADJUST_BOT", "L_ADJUST_TOP_AND_BOT", "other"}

\* A mutation of AdjustWidthBox: the new left side is not kept at 0 or more.
AdjustWidthBox_NoClamp(box, sides, target, thresh) ==
    LET diff == box.w - target
    IN  IF L_ABS(diff) >= thresh
        THEN IF sides = "L_ADJUST_LEFT"
             THEN BoxSetGeometry(box, box.x + diff, box.y, target, box.h)
             ELSE IF sides = "L_ADJUST_RIGHT"
             THEN BoxSetGeometry(box, box.x, box.y, target, box.h)
             ELSE BoxSetGeometry(box, box.x + HalfOf(diff), box.y, target, box.h)
        ELSE box

\* The body of the loop of boxaAdjustWidthToTarget for one box.
AdjustWidthBox(box, sides, target, thresh) ==
    LET diff == box.w - target
    IN  IF L_ABS(diff) >= thresh
        THEN IF sides = "L_ADJUST_LEFT"
             THEN BoxSetGeometry(box, L_MAX(0, box.x + diff), box.y, target, box.h)
             ELSE IF sides = "L_ADJUST_RIGHT"
             THEN BoxSetGeometry(box, box.x, box.y, target, box.h)
             ELSE BoxSetGeometry(box, L_MAX(0, box.x + HalfOf(diff)), box.y,
                                 target, box.h)
        ELSE box

\* The body of the loop of boxaAdjustHeightToTarget for one box.
AdjustHeightBox(box, sides, target, thresh) ==
    LET diff == box.h - target
    IN  IF box.w = 0 \/ box.h = 0
        THEN box
        ELSE IF L_ABS(diff) >= thresh
        THEN IF sides = "L_ADJUST_TOP"
             THEN BoxSetGeometry(box, box.x, L_MAX(0, box.y + diff), box.w, target)
             ELSE IF sides = "L_ADJUST_BOT"
             THEN BoxSetGeometry(box, box.x, box.y, box.w, target)
             ELSE BoxSetGeometry(box, box.x, L_MAX(0, box.y + HalfOf(diff)),
                                 box.w, target)
        ELSE box

\* boxaAdjustWidthToTarget: << >> (NULL) on an error, else << the boxes of
\* boxad on return >>; dest is "NULL", "boxas" (in place) or "other".
BoxaAdjustWidthToTarget(dest, boxes, sides, target, thresh) ==
    IF dest = "other"
    THEN << >>
    ELSE IF sides \notin {"L_ADJUST_LEFT", "L_ADJUST_RIGHT", "L_ADJUST_LEFT_AND_RIGHT"}
    THEN << >>
    ELSE IF target < 1
    THEN << >>
    ELSE << [k \in 1..Len(boxes) |-> AdjustWidthBox(boxes[k], sides, target, thresh)] >>

BoxaAdjustHeightToTarget(dest, boxes, sides, target, thresh) ==
    IF dest = "other"
    THEN << >>
    ELSE IF sides \notin {"L_ADJUST_TOP", "L_ADJUST_BOT", "L_ADJUST_TOP_AND_BOT"}
    THEN << >>
    ELSE IF target < 1
    THEN << >>
    ELSE << [k \in 1..Len(boxes) |-> AdjustHeightBox(boxes[k], sides, target, thresh)] >>

InitAdjust ==
    /\ pc = "adjust"
    /\ \E b \in AdjustBoxaSet : \E d \in {"NULL", "boxas", "other"} :
       \E sd \in AdjustSides : \E tg \in 0..MaxTarget : \E th \in 0..MaxThresh :
          args = [boxad |-> d, boxas |-> b, sides |-> sd, target |-> tg, thresh |-> th]
    /\ ret = << >>
    /\ UtilIdle

AdjustWidthToTarget ==
    /\ pc = "adjust"
    /\ ret' = BoxaAdjustWidthToTarget(args.boxad, args.boxas, args.sides,
                                      args.target, args.thresh)
    /\ pc' = "width_done"
    /\ UNCHANGED <<args, prev, utilFrame>>

AdjustHeightToTarget ==
    /\ pc = "adjust"
    /\ ret' = BoxaAdjustHeightToTarget(args.boxad, args.boxas, args.sides,
                                       args.target, args.thresh)
    /\ pc' = "height_done"
    /\ UNCHANGED <<args, prev, utilFrame>>

NextAdjust ==
    \/ AdjustWidthToTarget
    \/ AdjustHeightToTarget

SpecAdjust == InitAdjust /\ [][NextAdjust]_vars

HitsIn(out, box1) == {jj \in 1..Len(out) : BoxIntersects(box1, out[jj])}

\* C25: within a pass every element after the first is compared with the
\* boxes already in the pass output only: when it intersects one, the box of
\* the lowest such position is replaced by the bounding region of the two,
\* the other boxes stay and the output does not grow; when it intersects
\* none, it is appended.  The working array is left alone.
C25_PassStep ==
    [][(pc = "for" /\ i >= 1 /\ i < n1 /\ i' = i + 1) =>
          LET box1 == heap[boxat1].box[i + 1]
              out  == heap[boxat2].box
              out2 == heap'[boxat2].box
              hits == HitsIn(out, box1)
          IN  /\ heap'[boxat1] = heap[boxat1]
              /\ IF hits = {}
                 THEN out2 = Append(out, box1)
                 ELSE /\ Len(out2) = Len(out)
                      /\ \A jj \in 1..Len(out) :
                            out2[jj] = IF jj \in hits /\ \A k \in hits : jj <= k
                                       THEN BoxBoundingRegion(box1, out[jj])
                                       ELSE out[jj]]_vars

\* C25 witness: in the first pass the third element missed the first output
\* box and was folded into the second, which grew.
C25_Witness ==
    /\ pc = "for"
    /\ niters = 1
    /\ i = 3
    /\ Len(heap[boxat2].box) = 2
    /\ ~BoxIntersects(in0[3], in0[1])
    /\ heap[boxat2].box[1] = in0[1]
    /\ heap[boxat2].box[2] = BoxBoundingRegion(in0[3], in0[2])
    /\ heap[boxat2].box[2] # in0[2]

(* --------------------------- boxIntersectByLine ----------------------- *)
\* (l_int32)(a / b): the quotient truncated toward zero, b # 0.
TruncDiv(a, b) ==
    LET q == L_ABS(a) \div L_ABS(b)
    IN  IF (a >= 0) = (b > 0) THEN q ELSE -q

\* The slopes tried, as <<numerator, denominator>>: 0, the slopes whose
\* reciprocal is exact in l_float32, and one above 1000000.
SlopeSet == {<<0, 1>>, <<1, 1>>, <<-1, 1>>, <<2, 1>>, <<1, 2>>, <<2000000, 1>>}

\* The result of boxIntersectByLine: every output starts at 0.
LineResult(x1, y1, x2, y2, n) ==
    [status |-> 0, x1 |-> x1, y1 |-> y1, x2 |-> x2, y2 |-> y2, n |-> n]

\* The points added to pta, in the order of the four tests.
LinePoints(box, x, y, slope) ==
    LET num == slope[1]
        den == slope[2]
        xpt == TruncDiv(x * num + den * (y - box.y), num)
        xpb == TruncDiv(x * num + den * (y - box.y - box.h + 1), num)
        ypl == TruncDiv(y * den + num * (x - box.x), den)
        ypr == TruncDiv(y * den + num * (x - box.x - box.w + 1), den)
        p1  == IF xpt >= box.x /\ xpt < box.x + box.w
               THEN << <<xpt, box.y>> >> ELSE << >>
        p2  == IF xpb >= box.x /\ xpb < box.x + box.w
               THEN << <<xpb, box.y + box.h - 1>> >> ELSE << >>
        p3  == IF ypl >= box.y /\ ypl < box.y + box.h
               THEN << <<box.x, ypl>> >> ELSE << >>
        p4  == IF ypr >= box.y /\ ypr < box.y + box.h
               THEN << <<box.x + box.w - 1, ypr>> >> ELSE << >>
    IN  p1 \o p2 \o p3 \o p4

BoxIntersectByLine(box, x, y, slope) ==
    IF slope[1] = 0
    THEN IF y >= box.y /\ y < box.y + box.h
         THEN LineResult(box.x, y, box.x + box.w - 1, y, 0)
         ELSE LineResult(0, 0, 0, 0, 0)
    ELSE IF slope[1] > 1000000 * slope[2]
    THEN IF x >= box.x /\ x < box.x + box.w
         THEN LineResult(x, box.y, x, box.y + box.h - 1, 0)
         ELSE LineResult(0, 0, 0, 0, 0)
    ELSE LET pta   == LinePoints(box, x, y, slope)
             n     == Len(pta)
             other == {k \in 2..n : pta[k] # pta[1]}
         IN  IF n = 0
             THEN LineResult(0, 0, 0, 0, 0)
             ELSE IF other = {}
             THEN LineResult(pta[1][1], pta[1][2], 0, 0, 1)
             ELSE LET k == CHOOSE kk \in other : \A mm \in other : kk <= mm
                  IN  LineResult(pta[1][1], pta[1][2], pta[k][1], pta[k][2], 2)

InitLine ==
    /\ pc = "line"
    /\ \E b \in BoxSet : \E x \in (-1)..(MaxX + MaxW) : \E y \in (-1)..(MaxY + MaxH) :
       \E sl \in SlopeSet :
          args = [box |-> b, x |-> x, y |-> y, slope |-> sl]
    /\ ret = << >>
    /\ UtilIdle

IntersectByLine ==
    /\ pc = "line"
    /\ ret' = BoxIntersectByLine(args.box, args.x, args.y, args.slope)
    /\ pc' = "line_done"
    /\ UNCHANGED <<args, prev, utilFrame>>

NextLine == IntersectByLine

SpecLine == InitLine /\ [][NextLine]_vars

(* ------------------------ intersect by line: claims ------------------- *)
\* C26: for a horizontal line through a box with by <= y < by + bh the two
\* points returned are (bx, y) and (bx + bw - 1, y) and the count is the
\* number of points returned, 2, or 1 when bw = 1; with y outside
\* [by, by + bh) the count is 0.  The same for a vertical line, with the
\* axes exchanged.
C26_AxisCount ==
    pc = "line_done" =>
       LET b == args.box
       IN  /\ args.slope[1] = 0 =>
                IF args.y >= b.y /\ args.y < b.y + b.h
                THEN /\ <<ret.x1, ret.y1>> = <<b.x, args.y>>
                     /\ <<ret.x2, ret.y2>> = <<b.x + b.w - 1, args.y>>
                     /\ ret.n = IF b.w = 1 THEN 1 ELSE 2
                ELSE ret.n = 0
           /\ args.slope[1] > 1000000 =>
                IF args.x >= b.x /\ args.x < b.x + b.w
                THEN /\ <<ret.x1, ret.y1>> = <<args.x, b.y>>
                     /\ <<ret.x2, ret.y2>> = <<args.x, b.y + b.h - 1>>
                     /\ ret.n = IF b.h = 1 THEN 1 ELSE 2
                ELSE ret.n = 0

(* --------------------- boxaCombineOverlaps: clustering ---------------- *)
\* The least and the greatest element of a non-empty set of integers.
MinOf(S) == CHOOSE v \in S : \A u \in S : v <= u
MaxOf(S) == CHOOSE v \in S : \A u \in S : v >= u

\* The smallest box holding the boxes of b at the positions of G, G # {}.
GroupBox(b, G) ==
    LET l == MinOf({b[p].x : p \in G})
        t == MinOf({b[p].y : p \in G})
        r == MaxOf({b[p].x + b[p].w - 1 : p \in G})
        d == MaxOf({b[p].y + b[p].h - 1 : p \in G})
    IN  Box(l, t, r - l + 1, d - t + 1)

\* g sends every input position to an output position, every output
\* position is taken, and every output box bounds what is sent to it.
IsClustering(g, b, out) ==
    \A k \in 1..Len(out) :
       LET G == {p \in 1..Len(b) : g[p] = k}
       IN  G # {} /\ out[k] = GroupBox(b, G)

\* C27: the array combine_overlaps returns is a clustering of its input: the
\* input positions fall into non-empty groups, one for each output box, and
\* each output box is exactly the bounding region of its group; the example
\* of the documentation gives (0,0,15,15), (20,20,5,5).
C27_Clustering ==
    pc = "done" =>
       /\ \E g \in [1..Len(in0) -> 1..Len(Returned)] : IsClustering(g, in0, Returned)
       /\ in0 = << >> => Returned = << >>
       /\ in0 = ClusterExample => Returned = << Box(0, 0, 15, 15), Box(20, 20, 5, 5) >>

\* C27 witness: the example of the documentation has been combined into two
\* boxes, the first of which is neither of the two boxes it bounds.
C27_Witness ==
    /\ pc = "done"
    /\ in0 = ClusterExample
    /\ Len(Returned) = 2
    /\ Returned[1] \notin Range(in0)

(* --------------------- boxaHandleOverlaps: the index map -------------- *)
\* Following the map from position p (1-based) ends at an entry of -1
\* without coming to a position of seen or to one already passed.
RECURSIVE ChainEnds(_, _, _)
ChainEnds(map, p, seen) ==
    IF map[p] = -1
    THEN TRUE
    ELSE LET q == map[p] + 1
         IN  /\ q \in 1..Len(map)
             /\ q \notin seen \cup {p}
             /\ ChainEnds(map, q, seen \cup {p})

\* C28: the index map of handle_overlaps is acyclic: along every entry the
\* area does not decrease and on equal areas the index strictly decreases,
\* so following the entries from any position ends at an entry of -1 with
\* no position met twice; and a non-empty input gives a non-empty output.
C28_Acyclic ==
    /\ namap # << >> =>
          \A p \in 1..Len(namap) :
             /\ namap[p] >= 0 =>
                   LET q == namap[p] + 1
                   IN  /\ q \in 1..Len(in0)
                       /\ \/ Area(in0[q]) > Area(in0[p])
                          \/ Area(in0[q]) = Area(in0[p]) /\ q < p
             /\ ChainEnds(namap, p, {})
    /\ (pc = "done" /\ in0 # << >>) => Returned # << >>

\* C28 witness: the function has returned with a chain of two entries in
\* its map: a box marked with a box that is itself marked.
C28_Witness ==
    /\ pc = "done"
    /\ namap # << >>
    /\ \E p \in 1..Len(namap) :
          /\ namap[p] >= 0
          /\ namap[namap[p] + 1] >= 0
    /\ Returned # << >>

====
